---- MODULE Spec2Model ----
(***************************************************************************)
(* Rate-limiting middleware of service/pkg/middleware/ratelimit.           *)
(*                                                                         *)
(* Go strings are modelled as sequences of one-character strings, so that  *)
(* strings.HasPrefix, HasSuffix, Split and concatenation do what the Go    *)
(* library does.  Times are wall-clock milliseconds; a time.Duration is a  *)
(* number of milliseconds; t.Unix() is t \div 1000.                        *)
(***************************************************************************)
EXTENDS Integers, Sequences, FiniteSets, Bags, TLC

(***************************************************************************)
(* Bounds of the model                                                     *)
(***************************************************************************)
\* number of requests a behaviour starts
MaxRequests == 2
\* number of clock advances in a behaviour
MaxTicks == 2
\* number of distinct values math.random() can return inside the script
NumRand == 2
\* SpecSW: number of SlidingWindowLimiter.Allow calls a behaviour starts
MaxCalls == 4
\* SpecSW: the limit and the window (ms) of the calls
SWLimit == 2
SWWindow == 2000
\* SpecLocal: number of LocalLimiter.Allow calls a behaviour makes, the
\* largest limit tried, and the window (ms)
MaxLocalCalls == 5
MaxLocalLimit == 3
LLWindow == 2000
\* SpecFn: longest generated identifier / path argument of BuildKey, longest
\* generated path argument of matchPath, largest rate of a tier
MaxStrLen == 2
MaxPathLen == 5
MaxRate == 2
\* SpecTB: number of TokenBucketLimiter.Allow calls a behaviour starts, and
\* the largest burst tried
MaxTBCalls == 4
MaxBurst == 2
\* SpecEx: number of requests a behaviour starts, and the number of seconds
\* the clock runs
MaxExCalls == 4
MaxExSeconds == 4
\* SpecKeys: number of limiter calls a behaviour makes
MaxKeyCalls == 4
\* SpecLive: number of probe intervals the clock runs while no checker sleeps
MaxLiveTicks == 2

\* request-serving goroutines
Procs == {1, 2}

(***************************************************************************)
(* String helpers (package strings)                                        *)
(***************************************************************************)
HasPrefix(s, prefix) ==
    /\ Len(prefix) <= Len(s)
    /\ SubSeq(s, 1, Len(prefix)) = prefix

HasSuffix(s, suffix) ==
    /\ Len(suffix) <= Len(s)
    /\ SubSeq(s, Len(s) - Len(suffix) + 1, Len(s)) = suffix

TrimSuffix(s, suffix) ==
    IF HasSuffix(s, suffix) THEN SubSeq(s, 1, Len(s) - Len(suffix)) ELSE s

\* strings.Contains(s, c) for a one-character c
ContainsChar(s, c) == \E i \in 1..Len(s) : s[i] = c

RECURSIVE SplitFrom(_, _, _, _)
SplitFrom(s, sep, i, cur) ==
    IF i > Len(s) THEN <<cur>>
    ELSE IF s[i] = sep THEN <<cur>> \o SplitFrom(s, sep, i + 1, <<>>)
    ELSE SplitFrom(s, sep, i + 1, Append(cur, s[i]))

\* strings.Split(s, sep) for a one-character sep
Split(s, sep) == SplitFrom(s, sep, 1, <<>>)

(***************************************************************************)
(* config.go                                                               *)
(***************************************************************************)
Second == 1000
Minute == 60000

KeyTypeGlobal == "global"
KeyTypeUser == "user"
KeyTypeIP == "ip"
KeyTypeAPI == "api"

\* variant: the per-minute rate is preferred
GetEffectiveLimit_PreferMinute(t) ==
    IF t.RequestsPerMinute > 0 THEN t.RequestsPerMinute ELSE t.RequestsPerSecond

GetEffectiveLimit(t) ==
    IF t.RequestsPerSecond > 0 THEN t.RequestsPerSecond ELSE t.RequestsPerMinute

GetEffectiveWindow(t) ==
    IF t.Window > 0 THEN t.Window
    ELSE IF t.RequestsPerSecond > 0 THEN Second
    ELSE Minute

KeyPrefix == <<"r", "a", "t", "e", "l", "i", "m", "i", "t", ":">>

\* variant: the ip key is written under the user tag
BuildKey_IPAsUser(keyType, identifier, path) ==
    CASE keyType = KeyTypeGlobal -> KeyPrefix \o <<"g", "l", "o", "b", "a", "l">>
      [] keyType = KeyTypeUser ->
            IF path # <<>>
            THEN KeyPrefix \o <<"u", "s", "e", "r", ":">> \o identifier
                           \o <<":", "a", "p", "i", ":">> \o path
            ELSE KeyPrefix \o <<"u", "s", "e", "r", ":">> \o identifier
      [] keyType = KeyTypeIP -> KeyPrefix \o <<"u", "s", "e", "r", ":">> \o identifier
      [] keyType = KeyTypeAPI -> KeyPrefix \o <<"a", "p", "i", ":">> \o path
      [] OTHER -> KeyPrefix \o <<"u", "n", "k", "n", "o", "w", "n", ":">> \o identifier

\* variant: the user key leaves the path out
BuildKey_UserNoPath(keyType, identifier, path) ==
    CASE keyType = KeyTypeGlobal -> KeyPrefix \o <<"g", "l", "o", "b", "a", "l">>
      [] keyType = KeyTypeUser -> KeyPrefix \o <<"u", "s", "e", "r", ":">> \o identifier
      [] keyType = KeyTypeIP -> KeyPrefix \o <<"i", "p", ":">> \o identifier
      [] keyType = KeyTypeAPI -> KeyPrefix \o <<"a", "p", "i", ":">> \o path
      [] OTHER -> KeyPrefix \o <<"u", "n", "k", "n", "o", "w", "n", ":">> \o identifier

BuildKey(keyType, identifier, path) ==
    CASE keyType = KeyTypeGlobal -> KeyPrefix \o <<"g", "l", "o", "b", "a", "l">>
      [] keyType = KeyTypeUser ->
            IF path # <<>>
            THEN KeyPrefix \o <<"u", "s", "e", "r", ":">> \o identifier
                           \o <<":", "a", "p", "i", ":">> \o path
            ELSE KeyPrefix \o <<"u", "s", "e", "r", ":">> \o identifier
      [] keyType = KeyTypeIP -> KeyPrefix \o <<"i", "p", ":">> \o identifier
      [] keyType = KeyTypeAPI -> KeyPrefix \o <<"a", "p", "i", ":">> \o path
      [] OTHER -> KeyPrefix \o <<"u", "n", "k", "n", "o", "w", "n", ":">> \o identifier

(***************************************************************************)
(* ratelimit.go: matchPath                                                 *)
(***************************************************************************)
ParamPartsMatch(patternParts, pathParts) ==
    IF Len(patternParts) # Len(pathParts) THEN FALSE
    ELSE \A i \in 1..Len(patternParts) :
            \/ HasPrefix(patternParts[i], <<":">>)
            \/ patternParts[i] = pathParts[i]

matchPath(pattern, path) ==
    IF pattern = path THEN TRUE
    ELSE IF HasSuffix(pattern, <<"/", "*">>)
         THEN HasPrefix(path, TrimSuffix(pattern, <<"/", "*">>))
    ELSE IF ContainsChar(pattern, ":")
         THEN ParamPartsMatch(Split(pattern, "/"), Split(path, "/"))
    ELSE FALSE

(***************************************************************************)
(* features.go                                                             *)
(***************************************************************************)
\* globalManager: NilManager, or a manager with its cache entry for
\* "rate_limiting" ("true", "false" or "absent") and viper's value for
\* features.rate_limiting.
NilManager == [init |-> FALSE, cache |-> "absent", viper |-> FALSE]

ManagerIsEnabled(m) ==
    IF m.cache # "absent" THEN m.cache = "true" ELSE m.viper

\* variant: a missing manager counts as "enabled"
IsEnabled_NilOn(m) ==
    IF ~m.init THEN TRUE ELSE ManagerIsEnabled(m)

IsEnabled(m) ==
    IF ~m.init THEN FALSE ELSE ManagerIsEnabled(m)

(***************************************************************************)
(* sliding_window.go: the Lua script of SlidingWindowLimiter.Allow         *)
(***************************************************************************)
\* A sorted set is a set of [score, member]; members are unique.
ZRemRangeByScore(entries, max) == {e \in entries : e.score > max}

ZAdd(entries, score, member) ==
    {e \in entries : e.member # member} \cup {[score |-> score, member |-> member]}

\* score of ZRANGE key 0 0 WITHSCORES
OldestScore(entries) ==
    CHOOSE s \in {e.score : e \in entries} : \A e \in entries : s <= e.score

\* math.ceil(a / b) for b > 0
CeilDiv(a, b) == IF a >= 0 THEN (a + b - 1) \div b ELSE -((-a) \div b)

\* the sorted set stored under key at server time serverNow (a key whose TTL
\* has run out is gone)
LiveEntries(st, key, serverNow) ==
    IF key \in DOMAIN st /\ serverNow <= st[key].expireAt
    THEN st[key].entries
    ELSE {}

\* variant: writing a key drops the other keys of the store
StorePut_Flush(st, key, entries, expireAt) ==
    IF entries = {}
    THEN [k \in {} |-> st[k]]
    ELSE [k \in {key} |-> [entries |-> entries, expireAt |-> expireAt]]

StorePut(st, key, entries, expireAt) ==
    IF entries = {}
    THEN [k \in DOMAIN st \ {key} |-> st[k]]
    ELSE [k \in DOMAIN st \cup {key} |->
            IF k = key THEN [entries |-> entries, expireAt |-> expireAt] ELSE st[k]]

\* variant: a denial renews the expiry of the key
SlidingWindowScript_DenyRefreshes(st, key, now, windowStart, limit, windowMs, rnd, serverNow) ==
    LET purged == ZRemRangeByScore(LiveEntries(st, key, serverNow), windowStart)
        count == Cardinality(purged)
    IN  IF count < limit
        THEN [store |-> StorePut(st, key, ZAdd(purged, now, <<now, rnd>>),
                                 serverNow + windowMs),
              reply |-> <<1, limit - count - 1, 0>>]
        ELSE LET retry == IF purged # {}
                          THEN CeilDiv(OldestScore(purged) + windowMs - now, 1000)
                          ELSE 0
             IN [store |-> StorePut(st, key, purged, serverNow + windowMs),
                 reply |-> <<0, 0, IF retry < 0 THEN 0 ELSE retry>>]

\* One atomic execution of the script at server time serverNow; rnd is the
\* value math.random() returns.  Gives the new store and the reply
\* {allowed, remaining, retry_after}.
SlidingWindowScript(st, key, now, windowStart, limit, windowMs, rnd, serverNow) ==
    LET purged == ZRemRangeByScore(LiveEntries(st, key, serverNow), windowStart)
        count == Cardinality(purged)
        oldTTL == IF key \in DOMAIN st THEN st[key].expireAt ELSE 0
    IN  IF count < limit
        THEN [store |-> StorePut(st, key, ZAdd(purged, now, <<now, rnd>>),
                                 serverNow + windowMs),
              reply |-> <<1, limit - count - 1, 0>>]
        ELSE LET retry == IF purged # {}
                          THEN CeilDiv(OldestScore(purged) + windowMs - now, 1000)
                          ELSE 0
             IN [store |-> StorePut(st, key, purged, oldTTL),
                 reply |-> <<0, 0, IF retry < 0 THEN 0 ELSE retry>>]

\* variant: the reset time is taken from the retry_after of the script
SlidingWindowAllow_ScriptRetry(st, key, limit, window, now, rnd, serverNow) ==
    LET run == SlidingWindowScript(st, key, now, now - window, limit, window,
                                   rnd, serverNow)
    IN [store |-> run.store,
        allowed |-> run.reply[1] = 1,
        remaining |-> run.reply[2],
        reset |-> (now \div 1000) + run.reply[3]]

\* SlidingWindowLimiter.Allow once script.Run has returned without error:
\* now is the time.Now() read before the script ran.
SlidingWindowAllow(st, key, limit, window, now, rnd, serverNow) ==
    LET run == SlidingWindowScript(st, key, now, now - window, limit, window,
                                   rnd, serverNow)
    IN [store |-> run.store,
        allowed |-> run.reply[1] = 1,
        remaining |-> run.reply[2],
        reset |-> (now + window) \div 1000]

(***************************************************************************)
(* ratelimit.go: LocalLimiter.Allow                                        *)
(***************************************************************************)
\* variant: a call at the reset time itself starts a new window
LocalAllow_ResetAtBoundary(cs, key, limit, window, now) ==
    IF key \notin DOMAIN cs \/ now >= cs[key].resetTime
    THEN [counters |-> [k \in DOMAIN cs \cup {key} |->
                          IF k = key
                          THEN [count |-> 1, resetTime |-> now + window]
                          ELSE cs[k]],
          allowed |-> TRUE,
          remaining |-> limit - 1,
          reset |-> (now + window) \div 1000]
    ELSE IF cs[key].count >= limit
    THEN [counters |-> cs,
          allowed |-> FALSE,
          remaining |-> 0,
          reset |-> cs[key].resetTime \div 1000]
    ELSE [counters |-> [cs EXCEPT ![key].count = @ + 1],
          allowed |-> TRUE,
          remaining |-> limit - (cs[key].count + 1),
          reset |-> cs[key].resetTime \div 1000]

\* variant: the record is full only once count exceeds the limit
LocalAllow_OffByOne(cs, key, limit, window, now) ==
    IF key \notin DOMAIN cs \/ now > cs[key].resetTime
    THEN [counters |-> [k \in DOMAIN cs \cup {key} |->
                          IF k = key
                          THEN [count |-> 1, resetTime |-> now + window]
                          ELSE cs[k]],
          allowed |-> TRUE,
          remaining |-> limit - 1,
          reset |-> (now + window) \div 1000]
    ELSE IF cs[key].count > limit
    THEN [counters |-> cs,
          allowed |-> FALSE,
          remaining |-> 0,
          reset |-> cs[key].resetTime \div 1000]
    ELSE [counters |-> [cs EXCEPT ![key].count = @ + 1],
          allowed |-> TRUE,
          remaining |-> limit - (cs[key].count + 1),
          reset |-> cs[key].resetTime \div 1000]

LocalAllow(cs, key, limit, window, now) ==
    IF key \notin DOMAIN cs \/ now > cs[key].resetTime
    THEN [counters |-> [k \in DOMAIN cs \cup {key} |->
                          IF k = key
                          THEN [count |-> 1, resetTime |-> now + window]
                          ELSE cs[k]],
          allowed |-> TRUE,
          remaining |-> limit - 1,
          reset |-> (now + window) \div 1000]
    ELSE IF cs[key].count >= limit
    THEN [counters |-> cs,
          allowed |-> FALSE,
          remaining |-> 0,
          reset |-> cs[key].resetTime \div 1000]
    ELSE [counters |-> [cs EXCEPT ![key].count = @ + 1],
          allowed |-> TRUE,
          remaining |-> limit - (cs[key].count + 1),
          reset |-> cs[key].resetTime \div 1000]

(***************************************************************************)
(* Inputs: paths, patterns, requests, configurations                       *)
(***************************************************************************)
PatAStar == <<"/", "a", "/", "*">>
PatAParamB == <<"/", "a", "/", ":", "x", "/", "b">>
PathACB == <<"/", "a", "/", "c", "/", "b">>
PathAD == <<"/", "a", "/", "d">>
PathX == <<"/", "x">>

\* the value stored under the gin context key user_id
NoValue == [kind |-> "none", val |-> <<>>]
StringValue(s) == [kind |-> "string", val |-> s]
OtherValue == [kind |-> "int", val |-> <<>>]

\* fullPath is c.FullPath() ("" when no route matched), urlPath is
\* c.Request.URL.Path, ip is c.ClientIP()
Requests ==
    { [fullPath |-> <<>>, urlPath |-> PathACB, user |-> StringValue(<<"u">>),
       ip |-> <<"1">>],
      [fullPath |-> PathAD, urlPath |-> PathAD, user |-> OtherValue, ip |-> <<"2">>],
      [fullPath |-> PathX, urlPath |-> PathX, user |-> StringValue(<<>>),
       ip |-> <<"1">>],
      [fullPath |-> PathX, urlPath |-> PathX, user |-> NoValue, ip |-> <<"1">>] }

Tier(rps, rpm, window) ==
    [RequestsPerSecond |-> rps, RequestsPerMinute |-> rpm, Burst |-> 0,
     Window |-> window]

TierStar == Tier(2, 0, 0)
TierParam == Tier(1, 5, 2000)
TierUser == Tier(0, 1, 1000)
TierIP == Tier(0, 2, 0)
\* a tier with neither rate set
TierZero == Tier(0, 0, 0)

ApiMap == [pat \in {PatAStar, PatAParamB} |->
             IF pat = PatAStar THEN TierStar ELSE TierParam]
EmptyApi == [pat \in {} |-> TierStar]

MkConfig(enabled, api, fallback) ==
    [Enabled |-> enabled, User |-> TierUser, IP |-> TierIP, API |-> api,
     FallbackToLocal |-> fallback]

Manager(cache, viper) == [init |-> TRUE, cache |-> cache, viper |-> viper]

\* The deployments a behaviour starts from: whether New got a store client,
\* the feature manager, and the configuration.
Deployments ==
    { [hasRedis |-> TRUE, features |-> Manager("true", FALSE),
       config |-> MkConfig(TRUE, ApiMap, TRUE)],
      [hasRedis |-> TRUE, features |-> Manager("absent", TRUE),
       config |-> MkConfig(TRUE, EmptyApi, FALSE)],
      [hasRedis |-> FALSE, features |-> Manager("true", TRUE),
       config |-> MkConfig(TRUE, ApiMap, TRUE)],
      [hasRedis |-> TRUE, features |-> NilManager,
       config |-> MkConfig(TRUE, ApiMap, TRUE)],
      [hasRedis |-> TRUE, features |-> Manager("false", TRUE),
       config |-> MkConfig(TRUE, EmptyApi, TRUE)],
      [hasRedis |-> TRUE, features |-> Manager("absent", FALSE),
       config |-> MkConfig(TRUE, ApiMap, FALSE)],
      [hasRedis |-> TRUE, features |-> Manager("true", FALSE),
       config |-> MkConfig(FALSE, ApiMap, TRUE)],
      [hasRedis |-> TRUE, features |-> Manager("true", FALSE),
       config |-> [MkConfig(TRUE, EmptyApi, TRUE) EXCEPT !.IP = TierZero]] }

\* the probe interval of scheduleRedisRecoveryCheck
ProbeInterval == 30000

\* steps by which the wall clock advances
ClockSteps == {1000, ProbeInterval}

(***************************************************************************)
(* State                                                                   *)
(***************************************************************************)
VARIABLES
    clock,      \* wall-clock time in ms
    ticks,      \* clock advances so far
    nreq,       \* requests (or limiter calls) started so far
    redisUp,    \* whether the store answers
    store,      \* the store: key -> [entries, expireAt]
    counters,   \* LocalLimiter.counters: key -> [count, resetTime]
    useLocal,   \* RateLimitMiddleware.useLocal
    checkers,   \* bag of wake-up times of scheduleRedisRecoveryCheck goroutines
    features,   \* features.globalManager
    config,     \* RateLimitMiddleware.config
    hasRedis,   \* redisClient != nil
    proc,       \* per goroutine: position and locals of the request it serves
    hist,       \* history of the request each goroutine serves
    last,       \* the request answered most recently, with its response
    watch,      \* history of the health watcher
    admitted    \* SpecSW: the limiter calls admitted, with their timestamps;
                \* SpecLocal, SpecTB, SpecEx: all the calls, with their results

vars == <<clock, ticks, nreq, redisUp, store, counters, useLocal, checkers,
          features, config, hasRedis, proc, hist, last, watch, admitted>>

NoTier == Tier(0, 0, 0)
NoResult == [allowed |-> FALSE, remaining |-> 0, reset |-> 0]
NoHeaders == [h \in {} |-> 0]
NoRequest == [fullPath |-> <<>>, urlPath |-> <<>>, user |-> NoValue, ip |-> <<>>]

IdleProc ==
    [pc |-> "idle", req |-> NoRequest, tier |-> NoTier, key |-> <<>>,
     limit |-> 0, window |-> 0, now |-> 0]

\* gate: whether the request passed the flag and config.Enabled; pattern: the
\* API pattern that matched; mode: the use_local value read; flipped: its
\* store error moved use_local from false to true; by: which counter decided;
\* afterFallback / afterRecovery: watch.degradedClean / watch.recoveredClean
\* when it read use_local; cancelled: its context was cancelled during the
\* store call; cfgs: the values of m.config it has read
IdleHist ==
    [gate |-> "none", tierName |-> "none", pattern |-> <<>>, mode |-> "none",
     storeCalled |-> FALSE, storeErr |-> FALSE, flipped |-> FALSE,
     by |-> "none", afterFallback |-> FALSE, afterRecovery |-> FALSE,
     cancelled |-> FALSE, cfgs |-> {}]

NoResponse ==
    [status |-> "none", headers |-> NoHeaders, body |-> 0, res |-> NoResult,
     req |-> NoRequest, tier |-> NoTier, key |-> <<>>, hist |-> IdleHist]

\* degradedClean: use_local was set by a store error and no probe has
\* succeeded since; recoveredClean: a probe succeeded and since then the
\* store stayed up and no store error was reported; firstAfter: the counter
\* that made the first decision after that probe
IdleWatch ==
    [degradedClean |-> FALSE, recoveredClean |-> FALSE, firstAfter |-> "none"]

\* New, lines 90-107
\* variant: New starts on the shared counter whatever client it got
NewUseLocal_Shared(hr) == FALSE

\* New, line 99: use_local of a new middleware (hr: redisClient != nil)
NewUseLocal(hr) == ~hr

\* IsUsingLocalFallback, lines 283-287
IsUsingLocalFallback(ul) == ul

Init ==
    /\ clock = 0
    /\ ticks = 0
    /\ nreq = 0
    /\ redisUp = TRUE
    /\ store = [k \in {} |-> 0]
    /\ counters = [k \in {} |-> 0]
    /\ \E d \in Deployments :
         /\ hasRedis = d.hasRedis
         /\ features = d.features
         /\ config = d.config
    /\ useLocal = NewUseLocal(hasRedis)
    /\ checkers = EmptyBag
    /\ proc = [p \in Procs |-> IdleProc]
    /\ hist = [p \in Procs |-> IdleHist]
    /\ last = NoResponse
    /\ watch = IdleWatch
    /\ admitted = <<>>

(***************************************************************************)
(* ratelimit.go: the middleware                                            *)
(***************************************************************************)
HeaderRateLimitLimit == "X-RateLimit-Limit"
HeaderRateLimitRemaining == "X-RateLimit-Remaining"
HeaderRateLimitReset == "X-RateLimit-Reset"
HeaderRetryAfter == "Retry-After"

\* Middleware, lines 113-121: TRUE when the request is to be limited
MiddlewareGate(m, cfg) == IsEnabled(m) /\ cfg.Enabled

\* the path determineTierAndKey matches against
RequestPath(r) == IF r.fullPath = <<>> THEN r.urlPath ELSE r.fullPath

\* variant: the user tier is tried before the API patterns
DetermineTierAndKey_UserFirst(cfg, r) ==
    LET path == RequestPath(r)
        matching == {pat \in DOMAIN cfg.API : matchPath(pat, path)}
    IN  IF r.user.kind = "string" /\ r.user.val # <<>>
        THEN { [tier |-> cfg.User, key |-> BuildKey(KeyTypeUser, r.user.val, <<>>),
                tierName |-> "user", pattern |-> <<>>] }
        ELSE IF matching # {}
        THEN { [tier |-> cfg.API[pat], key |-> BuildKey(KeyTypeAPI, <<>>, path),
                tierName |-> "api", pattern |-> pat] : pat \in matching }
        ELSE { [tier |-> cfg.IP, key |-> BuildKey(KeyTypeIP, r.ip, <<>>),
                tierName |-> "ip", pattern |-> <<>>] }

\* determineTierAndKey: the set of results it can return (the range over the
\* map cfg.API visits the patterns in an unspecified order and the first that
\* matches wins).  tierName and pattern are not returned by the code; they
\* record which branch and which pattern produced the result.
DetermineTierAndKey(cfg, r) ==
    LET path == RequestPath(r)
        matching == {pat \in DOMAIN cfg.API : matchPath(pat, path)}
    IN  IF matching # {}
        THEN { [tier |-> cfg.API[pat], key |-> BuildKey(KeyTypeAPI, <<>>, path),
                tierName |-> "api", pattern |-> pat] : pat \in matching }
        ELSE IF r.user.kind = "string" /\ r.user.val # <<>>
        THEN { [tier |-> cfg.User, key |-> BuildKey(KeyTypeUser, r.user.val, <<>>),
                tierName |-> "user", pattern |-> <<>>] }
        ELSE { [tier |-> cfg.IP, key |-> BuildKey(KeyTypeIP, r.ip, <<>>),
                tierName |-> "ip", pattern |-> <<>>] }

\* variant: the local counter is used only when there is no store client
UsesLocalLimiter_NoClientOnly(ul, hr) == ~hr

\* checkLimit, line 195
UsesLocalLimiter(ul, hr) == ul \/ ~hr

\* variant: the store error never sets use_local
UseLocalAfterStoreError_Unset(fallback, cur) == cur

\* variant: the store error sets use_local whatever fallback_to_local says
UseLocalAfterStoreError_Always(fallback, cur) == TRUE

\* checkLimit, lines 203-206: use_local after a store error
UseLocalAfterStoreError(fallback, cur) == IF fallback THEN TRUE ELSE cur

\* checkLimit, line 214
FailOpen(limit, window, nowT) ==
    [allowed |-> TRUE, remaining |-> limit, reset |-> (nowT + window) \div 1000]

\* variant: the retry delay is not clamped to 1
RetryAfter_NoClamp(resetTime, nowT) == resetTime - (nowT \div 1000)

\* Middleware, lines 140-143
RetryAfter(resetTime, nowT) ==
    LET retryAfter == resetTime - (nowT \div 1000)
    IN IF retryAfter < 1 THEN 1 ELSE retryAfter

\* Middleware, lines 134-136
RateLimitHeaders(tier, res) ==
    (HeaderRateLimitLimit :> GetEffectiveLimit(tier))
      @@ (HeaderRateLimitRemaining :> res.remaining)
      @@ (HeaderRateLimitReset :> res.reset)

\* variant: the checker clears use_local whatever the ping returns
UseLocalAfterProbe_Reset(pingOk, cur) == FALSE

\* variant: a successful ping leaves use_local as it is
UseLocalAfterProbe_Keep(pingOk, cur) == cur

\* scheduleRedisRecoveryCheck, lines 229-236: use_local after the ping
UseLocalAfterProbe(pingOk, cur) == IF pingOk THEN FALSE ELSE cur

\* the first decision made after a clean recovery
NoteDecision(w, by) ==
    IF w.recoveredClean /\ w.firstAfter = "none"
    THEN [w EXCEPT !.firstAfter = by]
    ELSE w

\* what a counter returns to checkLimit
Result(r) == [allowed |-> r.allowed, remaining |-> r.remaining, reset |-> r.reset]

\* variant: a denied request is passed on as well
Respond_AlwaysNext(pr, h, res, nowT) ==
    [status |-> "next", headers |-> RateLimitHeaders(pr.tier, res), body |-> 0,
     res |-> res, req |-> pr.req, tier |-> pr.tier, key |-> pr.key, hist |-> h]

\* Middleware, lines 131-157: the response to the request of record pr with
\* history h once checkLimit has returned res at time nowT: the headers are
\* set, then the request is answered with 429 or passed to the next handler
Respond(pr, h, res, nowT) ==
    LET hs == RateLimitHeaders(pr.tier, res)
        retryAfter == RetryAfter(res.reset, nowT)
        base == [status |-> "next", headers |-> hs, body |-> 0, res |-> res,
                 req |-> pr.req, tier |-> pr.tier, key |-> pr.key, hist |-> h]
    IN IF ~res.allowed
       THEN [base EXCEPT !.headers = hs @@ (HeaderRetryAfter :> retryAfter),
                         !.status = "429",
                         !.body = retryAfter]
       ELSE base

\* Middleware, lines 113-121: c.Next() with nothing else done
Forward(r) ==
    [NoResponse EXCEPT !.status = "next", !.req = r,
                       !.hist = [IdleHist EXCEPT !.gate = "closed"]]

\* Middleware, lines 111-131, checkLimit, lines 188-200, and
\* SlidingWindowLimiter.Allow, lines 26-28: a goroutine takes a request,
\* passes the gate, resolves the tier, reads use_local and, on the store path,
\* reads its clock.  These steps read only the request, the configuration and
\* the flag, with no suspension point between them.  Free goroutines are
\* interchangeable: the lowest-numbered one takes the request.
Begin(p, r) ==
    /\ proc[p].pc = "idle"
    /\ \A q \in Procs : q < p => proc[q].pc # "idle"
    /\ nreq < MaxRequests
    /\ nreq' = nreq + 1
    /\ IF MiddlewareGate(features, config)
       THEN /\ \E d \in DetermineTierAndKey(config, r) :
                 LET local == UsesLocalLimiter(useLocal, hasRedis) IN
                 /\ proc' = [proc EXCEPT ![p] =
                               [pc |-> IF local THEN "local" ELSE "script",
                                req |-> r,
                                tier |-> d.tier,
                                key |-> d.key,
                                limit |-> GetEffectiveLimit(d.tier),
                                window |-> GetEffectiveWindow(d.tier),
                                now |-> IF local THEN 0 ELSE clock]]
                 /\ hist' = [hist EXCEPT ![p] =
                               [IdleHist EXCEPT
                                  !.gate = "open",
                                  !.tierName = d.tierName,
                                  !.pattern = d.pattern,
                                  !.mode = IF local THEN "local" ELSE "shared",
                                  !.storeCalled = ~local,
                                  !.afterFallback = watch.degradedClean,
                                  !.afterRecovery = watch.recoveredClean,
                                  !.cfgs = {config}]]
            /\ last' = last
       ELSE /\ last' = Forward(r)
            /\ UNCHANGED <<proc, hist>>
    /\ UNCHANGED <<clock, ticks, redisUp, store, counters, useLocal, checkers,
                   features, config, hasRedis, watch, admitted>>

\* checkLimit, line 196, and Middleware, lines 131-157: the local counter
\* decides and the request is answered
LocalStep(p) ==
    /\ proc[p].pc = "local"
    /\ LET r == LocalAllow(counters, proc[p].key, proc[p].limit, proc[p].window, clock)
       IN /\ counters' = r.counters
          /\ last' = Respond(proc[p], [hist[p] EXCEPT !.by = "local"], Result(r), clock)
    /\ proc' = [proc EXCEPT ![p] = IdleProc]
    /\ hist' = [hist EXCEPT ![p] = IdleHist]
    /\ watch' = NoteDecision(watch, "local")
    /\ UNCHANGED <<clock, ticks, nreq, redisUp, store, useLocal, checkers,
                   features, config, hasRedis, admitted>>

\* SlidingWindowLimiter.Allow, lines 66-79, checkLimit, line 217, and
\* Middleware, lines 131-157: the script runs, the shared counter decides and
\* the request is answered
StoreRunOk(p, rnd) ==
    /\ proc[p].pc = "script"
    /\ redisUp
    /\ LET r == SlidingWindowAllow(store, proc[p].key, proc[p].limit,
                                   proc[p].window, proc[p].now, rnd, clock)
       IN /\ store' = r.store
          /\ last' = Respond(proc[p], [hist[p] EXCEPT !.by = "shared"], Result(r), clock)
    /\ proc' = [proc EXCEPT ![p] = IdleProc]
    /\ hist' = [hist EXCEPT ![p] = IdleHist]
    /\ watch' = NoteDecision(watch, "shared")
    /\ UNCHANGED <<clock, ticks, nreq, redisUp, counters, useLocal, checkers,
                   features, config, hasRedis, admitted>>

\* SlidingWindowLimiter.Allow, lines 68-70, and checkLimit, lines 201-203 and
\* 213-215: script.Run returns an error (cancelled: because the request
\* context was cancelled).  With fallback the goroutine goes on to take the
\* write lock; without it the request is admitted and answered.
StoreCallFailed(p, cancelled) ==
    /\ proc[p].pc = "script"
    /\ IF config.FallbackToLocal
       THEN /\ proc' = [proc EXCEPT ![p].pc = "errored"]
            /\ hist' = [hist EXCEPT ![p].storeErr = TRUE, ![p].cancelled = cancelled,
                                    ![p].cfgs = @ \cup {config}]
            /\ UNCHANGED <<useLocal, last, watch>>
       ELSE /\ useLocal' = UseLocalAfterStoreError(config.FallbackToLocal, useLocal)
            /\ last' = Respond(proc[p],
                               [hist[p] EXCEPT !.storeErr = TRUE, !.by = "failopen",
                                               !.cancelled = cancelled,
                                               !.cfgs = @ \cup {config}],
                               FailOpen(proc[p].limit, proc[p].window, clock),
                               clock)
            /\ proc' = [proc EXCEPT ![p] = IdleProc]
            /\ hist' = [hist EXCEPT ![p] = IdleHist]
            /\ watch' = [NoteDecision(watch, "failopen") EXCEPT !.recoveredClean = FALSE]
    /\ UNCHANGED <<clock, ticks, nreq, redisUp, store, counters, checkers,
                   features, config, hasRedis, admitted>>

\* the store call fails because the store is unreachable
StoreRunErr(p) ==
    /\ ~redisUp
    /\ StoreCallFailed(p, FALSE)

\* the store call fails because the request context (c.Request.Context(),
\* checkLimit line 200) is cancelled while the call is under way
StoreRunCancelled(p) ==
    StoreCallFailed(p, TRUE)

\* checkLimit, lines 204-209: under the write lock use_local is set, then a
\* recovery checker is started (the go statement follows the unlock at once
\* and the checker begins with its sleep).  The goroutine is in the branch
\* of fallback_to_local = true, which it read at line 203.
MarkDegraded(p) ==
    /\ proc[p].pc = "errored"
    /\ useLocal' = UseLocalAfterStoreError(TRUE, useLocal)
    /\ checkers' = checkers (+) SetToBag({clock + ProbeInterval})
    /\ proc' = [proc EXCEPT ![p].pc = "fallback"]
    /\ hist' = [hist EXCEPT ![p].flipped = ~useLocal]
    /\ watch' = [watch EXCEPT !.degradedClean = TRUE, !.recoveredClean = FALSE]
    /\ UNCHANGED <<clock, ticks, nreq, redisUp, store, counters, last,
                   features, config, hasRedis, admitted>>

\* checkLimit, line 211, and Middleware, lines 131-157: the local counter
\* decides after the store error and the request is answered
Fallback(p) ==
    /\ proc[p].pc = "fallback"
    /\ LET r == LocalAllow(counters, proc[p].key, proc[p].limit, proc[p].window, clock)
       IN /\ counters' = r.counters
          /\ last' = Respond(proc[p], [hist[p] EXCEPT !.by = "local"], Result(r), clock)
    /\ proc' = [proc EXCEPT ![p] = IdleProc]
    /\ hist' = [hist EXCEPT ![p] = IdleHist]
    /\ watch' = NoteDecision(watch, "local")
    /\ UNCHANGED <<clock, ticks, nreq, redisUp, store, useLocal, checkers,
                   features, config, hasRedis, admitted>>

\* scheduleRedisRecoveryCheck: a checker whose sleep is over pings the store;
\* the ping succeeds
ProbeOk ==
    /\ hasRedis
    /\ redisUp
    /\ \E w \in BagToSet(checkers) :
         /\ clock >= w
         /\ checkers' = checkers (-) SetToBag({w})
    /\ useLocal' = UseLocalAfterProbe(TRUE, useLocal)
    /\ watch' = [watch EXCEPT !.degradedClean = FALSE, !.recoveredClean = TRUE,
                              !.firstAfter = "none"]
    /\ UNCHANGED <<clock, ticks, nreq, redisUp, store, counters, features,
                   config, hasRedis, proc, hist, last, admitted>>

\* scheduleRedisRecoveryCheck: the ping fails and the checker re-arms
ProbeFail ==
    /\ hasRedis
    /\ ~redisUp
    /\ \E w \in BagToSet(checkers) :
         /\ clock >= w
         /\ checkers' = (checkers (-) SetToBag({w}))
                          (+) SetToBag({clock + ProbeInterval})
    /\ useLocal' = UseLocalAfterProbe(FALSE, useLocal)
    /\ UNCHANGED <<clock, ticks, nreq, redisUp, store, counters, features,
                   config, hasRedis, proc, hist, last, watch, admitted>>

\* the store becomes unreachable
RedisDown ==
    /\ hasRedis
    /\ redisUp
    /\ redisUp' = FALSE
    /\ watch' = [watch EXCEPT !.recoveredClean = FALSE]
    /\ UNCHANGED <<clock, ticks, nreq, store, counters, useLocal, checkers,
                   features, config, hasRedis, proc, hist, last, admitted>>

\* the store answers again
RedisUp ==
    /\ ~redisUp
    /\ redisUp' = TRUE
    /\ UNCHANGED <<clock, ticks, nreq, store, counters, useLocal, checkers,
                   features, config, hasRedis, proc, hist, last, watch, admitted>>

\* time passes
Tick(d) ==
    /\ ticks < MaxTicks
    /\ ticks' = ticks + 1
    /\ clock' = clock + d
    /\ UNCHANGED <<nreq, redisUp, store, counters, useLocal, checkers,
                   features, config, hasRedis, proc, hist, last, watch, admitted>>

Next ==
    \/ \E p \in Procs, r \in Requests : Begin(p, r)
    \/ \E p \in Procs : LocalStep(p)
    \/ \E p \in Procs, rnd \in 1..NumRand : StoreRunOk(p, rnd)
    \/ \E p \in Procs : StoreRunErr(p)
    \/ \E p \in Procs : StoreRunCancelled(p)
    \/ \E p \in Procs : MarkDegraded(p)
    \/ \E p \in Procs : Fallback(p)
    \/ ProbeOk
    \/ ProbeFail
    \/ RedisDown
    \/ RedisUp
    \/ \E d \in ClockSteps : Tick(d)

Spec == Init /\ [][Next]_vars

(***************************************************************************)
(* SpecSW: concurrent SlidingWindowLimiter.Allow calls on one key          *)
(***************************************************************************)
SWKey == BuildKey(KeyTypeIP, <<"1">>, <<>>)

SWClockSteps == {1000}

InitSW ==
    /\ Init
    /\ hasRedis
    /\ features = Manager("true", FALSE)
    /\ config = MkConfig(TRUE, ApiMap, TRUE)

\* SlidingWindowLimiter.Allow, lines 26-28: the caller reads its clock
SWCall(p) ==
    /\ proc[p].pc = "idle"
    /\ nreq < MaxCalls
    /\ nreq' = nreq + 1
    /\ proc' = [proc EXCEPT ![p] = [IdleProc EXCEPT !.pc = "script",
                                                     !.key = SWKey,
                                                     !.limit = SWLimit,
                                                     !.window = SWWindow,
                                                     !.now = clock]]
    /\ UNCHANGED <<clock, ticks, redisUp, store, counters, useLocal, checkers,
                   features, config, hasRedis, hist, last, watch, admitted>>

\* SlidingWindowLimiter.Allow, lines 66-79: the script runs and the call returns
SWRun(p, rnd) ==
    /\ proc[p].pc = "script"
    /\ LET r == SlidingWindowAllow(store, proc[p].key, proc[p].limit,
                                   proc[p].window, proc[p].now, rnd, clock)
       IN /\ store' = r.store
          /\ last' = [NoResponse EXCEPT !.res = Result(r), !.key = proc[p].key]
          /\ admitted' = IF r.allowed
                         THEN Append(admitted, [ts |-> proc[p].now, rnd |-> rnd])
                         ELSE admitted
    /\ proc' = [proc EXCEPT ![p] = IdleProc]
    /\ UNCHANGED <<clock, ticks, nreq, redisUp, counters, useLocal, checkers,
                   features, config, hasRedis, hist, watch>>

NextSW ==
    \/ \E p \in Procs : SWCall(p)
    \/ \E p \in Procs, rnd \in 1..NumRand : SWRun(p, rnd)
    \/ \E d \in SWClockSteps : Tick(d)

SpecSW == InitSW /\ [][NextSW]_vars

(***************************************************************************)
(* SpecReply: the store answers script.Run with replies of any shape       *)
(***************************************************************************)
\* A reply is an array of elements or something else; an element is an
\* int64 or a string.
Reply(array, elems) == [array |-> array, elems |-> elems]

\* replies other than an array of at least three int64
BadReplies ==
    { Reply(FALSE, <<>>),
      Reply(TRUE, <<>>),
      Reply(TRUE, <<"int64">>),
      Reply(TRUE, <<"int64", "int64">>),
      Reply(TRUE, <<"string", "int64", "int64">>),
      Reply(TRUE, <<"int64", "int64", "string">>) }

\* SlidingWindowLimiter.Allow, lines 66-75: Slice() gives an error for a
\* reply that is not an array; result[i] panics when the array is too short
\* and result[i].(int64) panics when the element is not an int64
DecodeReply(reply) ==
    IF ~reply.array THEN "error"
    ELSE IF \E i \in 1..3 : i > Len(reply.elems) \/ reply.elems[i] # "int64"
    THEN "panic"
    ELSE "ok"

\* the request of goroutine p ends with the panic leaving the handler
Panicked(pr, h) ==
    [NoResponse EXCEPT !.status = "panic", !.req = pr.req, !.tier = pr.tier,
                       !.key = pr.key, !.hist = h]

\* SlidingWindowLimiter.Allow, lines 66-79: the store answers with a reply
\* of unexpected shape
StoreReplyBad(p, reply) ==
    /\ proc[p].pc = "script"
    /\ redisUp
    /\ DecodeReply(reply) # "ok"
    /\ IF DecodeReply(reply) = "error"
       THEN StoreCallFailed(p, FALSE)
       ELSE /\ last' = Panicked(proc[p], hist[p])
            /\ proc' = [proc EXCEPT ![p] = IdleProc]
            /\ hist' = [hist EXCEPT ![p] = IdleHist]
            /\ UNCHANGED <<clock, ticks, nreq, redisUp, store, counters, useLocal,
                           checkers, features, config, hasRedis, watch, admitted>>

InitReply ==
    /\ Init
    /\ hasRedis
    /\ MiddlewareGate(features, config)

NextReply ==
    \/ \E p \in Procs, r \in Requests : Begin(p, r)
    \/ \E p \in Procs : LocalStep(p)
    \/ \E p \in Procs, rnd \in 1..NumRand : StoreRunOk(p, rnd)
    \/ \E p \in Procs, reply \in BadReplies : StoreReplyBad(p, reply)
    \/ \E p \in Procs : MarkDegraded(p)
    \/ \E p \in Procs : Fallback(p)
    \/ \E d \in ClockSteps : Tick(d)

SpecReply == InitReply /\ [][NextReply]_vars

(***************************************************************************)
(* SpecFn: calls of BuildKey, matchPath, GetEffectiveLimit and             *)
(* GetEffectiveWindow on arguments drawn from bounded sets                 *)
(***************************************************************************)
\* the strings over chars of length at most n
StringsUpTo(chars, n) == UNION {[1..k -> chars] : k \in 0..n}

\* identifier and path arguments of BuildKey: short strings with ':', and
\* strings that look like parts of a key
KeyArgs ==
    StringsUpTo({":", "a"}, MaxStrLen)
      \cup { <<"a", "p", "i", ":">>,
             <<"a", ":", "a", "p", "i", ":", "/">>,
             <<"g", "l", "o", "b", "a", "l">>,
             <<"u", "s", "e", "r", ":", "a">>,
             <<"/", "a">> }

KeyTypes == {KeyTypeGlobal, KeyTypeUser, KeyTypeIP, KeyTypeAPI, "burst"}

FnPatterns ==
    { <<"/", "a", "/", "*">>,
      <<"/", "a", "/", ":", "x">>,
      <<"/", ":", "x", "/", "b">>,
      <<"/", "a", "/", "b">> }

FnPaths == StringsUpTo({"/", "a", "b"}, MaxPathLen)

FnTiers ==
    { Tier(rps, rpm, w) : rps \in 0..MaxRate, rpm \in 0..MaxRate,
                          w \in {0, 500, Second, Minute} }

InitFn ==
    /\ clock = 0
    /\ ticks = 0
    /\ nreq = 0
    /\ redisUp = TRUE
    /\ store = [k \in {} |-> 0]
    /\ counters = [k \in {} |-> 0]
    /\ hasRedis = FALSE
    /\ features = NilManager
    /\ config = MkConfig(TRUE, EmptyApi, TRUE)
    /\ useLocal = TRUE
    /\ checkers = EmptyBag
    /\ proc = [p \in Procs |-> IdleProc]
    /\ hist = [p \in Procs |-> IdleHist]
    /\ last = [op |-> "none"]
    /\ watch = IdleWatch
    /\ admitted = <<>>

FnUnchanged ==
    UNCHANGED <<clock, ticks, nreq, redisUp, store, counters, useLocal, checkers,
                features, config, hasRedis, proc, hist, watch, admitted>>

CallBuildKey(keyType, identifier, path) ==
    /\ last.op = "none"
    /\ last' = [op |-> "BuildKey", keyType |-> keyType, identifier |-> identifier,
                path |-> path, out |-> BuildKey(keyType, identifier, path)]
    /\ FnUnchanged

CallMatchPath(pattern, path) ==
    /\ last.op = "none"
    /\ last' = [op |-> "matchPath", pattern |-> pattern, path |-> path,
                out |-> matchPath(pattern, path)]
    /\ FnUnchanged

CallEffective(t) ==
    /\ last.op = "none"
    /\ last' = [op |-> "effective", tier |-> t, limit |-> GetEffectiveLimit(t),
                window |-> GetEffectiveWindow(t)]
    /\ FnUnchanged

NextFn ==
    \/ \E kt \in KeyTypes, id \in KeyArgs, path \in KeyArgs : CallBuildKey(kt, id, path)
    \/ \E pat \in FnPatterns, path \in FnPaths : CallMatchPath(pat, path)
    \/ \E t \in FnTiers : CallEffective(t)

\* a behaviour makes one call
SpecFn == InitFn /\ [][NextFn]_vars

(***************************************************************************)
(* SpecCfg: requests while SetConfig replaces the configuration            *)
(***************************************************************************)
\* the configurations SetConfig is called with
CfgValues ==
    { MkConfig(TRUE, ApiMap, TRUE),
      [MkConfig(TRUE, EmptyApi, FALSE) EXCEPT !.IP = Tier(0, 3, 60 * Second)],
      MkConfig(FALSE, ApiMap, TRUE) }

\* New, lines 90-107
InitCfg ==
    /\ Init
    /\ hasRedis
    /\ features = Manager("true", FALSE)
    /\ config = MkConfig(TRUE, ApiMap, TRUE)

\* SetConfig, lines 276-280
SetConfig(c) ==
    /\ config' = c
    /\ UNCHANGED <<clock, ticks, nreq, redisUp, store, counters, useLocal,
                   checkers, features, hasRedis, proc, hist, last, watch, admitted>>

\* Middleware, lines 111-121: a goroutine takes a request, finds the feature
\* on and reads m.config.Enabled
CfgGate(p, r) ==
    /\ proc[p].pc = "idle"
    /\ \A q \in Procs : q < p => proc[q].pc # "idle"
    /\ nreq < MaxRequests
    /\ nreq' = nreq + 1
    /\ IsEnabled(features)
    /\ IF config.Enabled
       THEN /\ proc' = [proc EXCEPT ![p] = [IdleProc EXCEPT !.pc = "api", !.req = r]]
            /\ hist' = [hist EXCEPT ![p] = [IdleHist EXCEPT !.gate = "open",
                                                            !.cfgs = {config}]]
            /\ last' = last
       ELSE /\ last' = [Forward(r) EXCEPT !.hist.cfgs = {config}]
            /\ UNCHANGED <<proc, hist>>
    /\ UNCHANGED <<clock, ticks, redisUp, store, counters, useLocal, checkers,
                   features, config, hasRedis, watch, admitted>>

\* checkLimit, lines 188-200, and SlidingWindowLimiter.Allow, lines 26-28:
\* with the tier and key d, having read the configuration cfg on the way,
\* the goroutine reads use_local and, on the store path, its clock
CfgResolved(p, d, cfg) ==
    LET local == UsesLocalLimiter(useLocal, hasRedis) IN
    /\ proc' = [proc EXCEPT ![p] =
                  [pc |-> IF local THEN "local" ELSE "script",
                   req |-> proc[p].req,
                   tier |-> d.tier,
                   key |-> d.key,
                   limit |-> GetEffectiveLimit(d.tier),
                   window |-> GetEffectiveWindow(d.tier),
                   now |-> IF local THEN 0 ELSE clock]]
    /\ hist' = [hist EXCEPT ![p] =
                  [@ EXCEPT !.tierName = d.tierName,
                            !.pattern = d.pattern,
                            !.mode = IF local THEN "local" ELSE "shared",
                            !.storeCalled = ~local,
                            !.afterFallback = watch.degradedClean,
                            !.afterRecovery = watch.recoveredClean,
                            !.cfgs = @ \cup {cfg}]]

\* determineTierAndKey, lines 162-173: m.config.API is read and searched
\* for a pattern that matches
CfgApi(p) ==
    /\ proc[p].pc = "api"
    /\ LET ds == {d \in DetermineTierAndKey(config, proc[p].req) : d.tierName = "api"}
       IN IF ds # {}
          THEN \E d \in ds : CfgResolved(p, d, config)
          ELSE /\ proc' = [proc EXCEPT ![p].pc = "tier"]
               /\ hist' = [hist EXCEPT ![p].cfgs = @ \cup {config}]
    /\ UNCHANGED <<clock, ticks, nreq, redisUp, store, counters, useLocal,
                   checkers, features, config, hasRedis, last, watch, admitted>>

\* determineTierAndKey, lines 175-184: no pattern matched; m.config.User or
\* m.config.IP is read
CfgTier(p) ==
    /\ proc[p].pc = "tier"
    /\ \E d \in DetermineTierAndKey([config EXCEPT !.API = EmptyApi], proc[p].req) :
         CfgResolved(p, d, config)
    /\ UNCHANGED <<clock, ticks, nreq, redisUp, store, counters, useLocal,
                   checkers, features, config, hasRedis, last, watch, admitted>>

NextCfg ==
    \/ \E c \in CfgValues : SetConfig(c)
    \/ \E p \in Procs, r \in Requests : CfgGate(p, r)
    \/ \E p \in Procs : CfgApi(p)
    \/ \E p \in Procs : CfgTier(p)
    \/ \E p \in Procs : LocalStep(p)
    \/ \E p \in Procs, rnd \in 1..NumRand : StoreRunOk(p, rnd)
    \/ \E p \in Procs : StoreRunErr(p)
    \/ \E p \in Procs : MarkDegraded(p)
    \/ \E p \in Procs : Fallback(p)
    \/ RedisDown
    \/ RedisUp

SpecCfg == InitCfg /\ [][NextCfg]_vars

(***************************************************************************)
(* SpecLive: the middleware with a store that goes down and comes back,    *)
(* the clock never stopping while a checker sleeps, and every goroutine    *)
(* of a checker scheduled in the end                                       *)
(***************************************************************************)
LiveRequest == [fullPath |-> PathX, urlPath |-> PathX, user |-> NoValue, ip |-> <<"1">>]

\* New, lines 90-107, with a store client and fallback_to_local
InitLive ==
    /\ Init
    /\ hasRedis
    /\ features = Manager("true", FALSE)
    /\ config = MkConfig(TRUE, ApiMap, TRUE)

\* scheduleRedisRecoveryCheck, line 221: a probe interval passes; the clock
\* goes on for as long as a checker is in its sleep
LiveTick ==
    /\ \/ ticks < MaxLiveTicks
       \/ \E w \in BagToSet(checkers) : w > clock
    /\ ticks' = ticks + 1
    /\ clock' = clock + ProbeInterval
    /\ UNCHANGED <<nreq, redisUp, store, counters, useLocal, checkers,
                   features, config, hasRedis, proc, hist, last, watch, admitted>>

\* scheduleRedisRecoveryCheck, lines 233-236: failed pings are followed up to
\* the end of the MaxLiveTicks intervals
LiveProbeFail ==
    /\ ticks < MaxLiveTicks
    /\ ProbeFail

NextLive ==
    \/ \E p \in Procs : Begin(p, LiveRequest)
    \/ \E p \in Procs : LocalStep(p)
    \/ \E p \in Procs, rnd \in 1..NumRand : StoreRunOk(p, rnd)
    \/ \E p \in Procs : StoreRunErr(p)
    \/ \E p \in Procs : StoreRunCancelled(p)
    \/ \E p \in Procs : MarkDegraded(p)
    \/ \E p \in Procs : Fallback(p)
    \/ ProbeOk
    \/ LiveProbeFail
    \/ RedisDown
    \/ RedisUp
    \/ LiveTick

\* the Go scheduler runs every runnable goroutine in the end, and time passes
SpecLive ==
    /\ InitLive
    /\ [][NextLive]_vars
    /\ WF_vars(ProbeOk)
    /\ WF_vars(LiveTick)

(***************************************************************************)
(* SpecEx: requests of one client through the shared counter, the store    *)
(* being up                                                                *)
(***************************************************************************)
ExRequest == [fullPath |-> PathX, urlPath |-> PathX, user |-> NoValue, ip |-> <<"1">>]

\* the ip tiers tried: 3 requests per 60 s, and 2 requests per second
ExTiers == {Tier(0, 3, 60 * Second), Tier(2, 0, 0)}

\* New, lines 90-107
InitEx ==
    /\ clock = 0
    /\ ticks = 0
    /\ nreq = 0
    /\ redisUp = TRUE
    /\ store = [k \in {} |-> 0]
    /\ counters = [k \in {} |-> 0]
    /\ hasRedis = TRUE
    /\ features = Manager("true", FALSE)
    /\ \E t \in ExTiers :
         config = [MkConfig(TRUE, EmptyApi, TRUE) EXCEPT !.IP = t]
    /\ useLocal = FALSE
    /\ checkers = EmptyBag
    /\ proc = [p \in Procs |-> IdleProc]
    /\ hist = [p \in Procs |-> IdleHist]
    /\ last = NoResponse
    /\ watch = IdleWatch
    /\ admitted = <<>>

\* Middleware, lines 111-131, checkLimit, lines 188-200, and
\* SlidingWindowLimiter.Allow, lines 26-28: the request passes the gate, the
\* ip tier is resolved and the limiter reads its clock
ExCall(p) ==
    /\ proc[p].pc = "idle"
    /\ nreq < MaxExCalls
    /\ nreq' = nreq + 1
    /\ MiddlewareGate(features, config)
    /\ \E d \in DetermineTierAndKey(config, ExRequest) :
         proc' = [proc EXCEPT ![p] =
                    [pc |-> "script", req |-> ExRequest, tier |-> d.tier,
                     key |-> d.key, limit |-> GetEffectiveLimit(d.tier),
                     window |-> GetEffectiveWindow(d.tier), now |-> clock]]
    /\ UNCHANGED <<clock, ticks, redisUp, store, counters, useLocal, checkers,
                   features, config, hasRedis, hist, last, watch, admitted>>

\* SlidingWindowLimiter.Allow, lines 66-79, checkLimit, line 217, and
\* Middleware, lines 131-157: the script runs and the request is answered;
\* the answer is appended to the log with the number of entries the script
\* found in the window, and the sorted set and its expiry before and after
ExRun(p, rnd) ==
    /\ proc[p].pc = "script"
    /\ LET r == SlidingWindowAllow(store, proc[p].key, proc[p].limit,
                                   proc[p].window, proc[p].now, rnd, clock)
           resp == Respond(proc[p], [hist[p] EXCEPT !.by = "shared"], Result(r), clock)
           found == Cardinality(ZRemRangeByScore(LiveEntries(store, proc[p].key, clock),
                                                 proc[p].now - proc[p].window))
       IN /\ store' = r.store
          /\ last' = resp
          /\ admitted' = Append(admitted,
                                [ts |-> proc[p].now, at |-> clock,
                                 allowed |-> resp.status = "next",
                                 remaining |-> resp.headers[HeaderRateLimitRemaining],
                                 retry_after |-> resp.body,
                                 found |-> found,
                                 window |-> proc[p].window,
                                 before |-> LiveEntries(store, proc[p].key, clock),
                                 after |-> LiveEntries(r.store, proc[p].key, clock),
                                 expBefore |-> IF proc[p].key \in DOMAIN store
                                               THEN store[proc[p].key].expireAt
                                               ELSE 0,
                                 expAfter |-> IF proc[p].key \in DOMAIN r.store
                                              THEN r.store[proc[p].key].expireAt
                                              ELSE 0])
    /\ proc' = [proc EXCEPT ![p] = IdleProc]
    /\ UNCHANGED <<clock, ticks, nreq, redisUp, counters, useLocal, checkers,
                   features, config, hasRedis, hist, watch>>

\* a second passes
ExTick ==
    /\ ticks < MaxExSeconds
    /\ ticks' = ticks + 1
    /\ clock' = clock + Second
    /\ UNCHANGED <<nreq, redisUp, store, counters, useLocal, checkers,
                   features, config, hasRedis, proc, hist, last, watch, admitted>>

NextEx ==
    \/ \E p \in Procs : ExCall(p)
    \/ \E p \in Procs, rnd \in 1..NumRand : ExRun(p, rnd)
    \/ ExTick

SpecEx == InitEx /\ [][NextEx]_vars

(***************************************************************************)
(* SpecTB: concurrent TokenBucketLimiter.Allow calls on one key            *)
(***************************************************************************)
\* The script computes in IEEE doubles.  The time argument is
\* float64(now.UnixMilli())/1000, seconds since the epoch: between 2^30 and
\* 2^31 seconds (2004 to 2038) a double has 22 fraction bits, so the value is
\* the multiple of 2^-22 s nearest to the millisecond.  Times and tokens are
\* kept in units of 2^-22 (Grain to the second / to the token); clock 0 is a
\* whole second of that range.  Rates and bursts are integers, so the sums,
\* products and minima of the script are exact in these units.
Grain == 4194304

\* float64(ms)/1000 in units of 2^-22 s (Grain / 1000 = 524288 / 125, and
\* no millisecond falls half-way between two multiples)
FloatSeconds(ms) ==
    (ms \div 1000) * Grain + (((ms % 1000) * 524288 + 62) \div 125)

Min(a, b) == IF a <= b THEN a ELSE b

\* TokenBucketLimiter.Allow, lines 100-128: one atomic execution of the
\* script at server time serverNow with ARGV[3] = nowF; nowMs is the
\* millisecond nowF was computed from (kept with the record for reference)
TokenBucketScript(st, key, rate, burst, nowF, nowMs, serverNow) ==
    LET hit == key \in DOMAIN st /\ serverNow <= st[key].expireAt
        tokens0 == IF hit THEN st[key].tokens ELSE burst * Grain
        last_update == IF hit THEN st[key].lastUpdate ELSE nowF
        elapsed == nowF - last_update
        tokens1 == Min(burst * Grain, tokens0 + elapsed * rate)
        allowed == tokens1 >= Grain
        tokens2 == IF allowed THEN tokens1 - Grain ELSE tokens1
        remaining == IF allowed THEN tokens2 \div Grain ELSE 0
        rec == [tokens |-> tokens2, lastUpdate |-> nowF, luMs |-> nowMs,
                expireAt |-> serverNow + (CeilDiv(burst, rate) + 1) * 1000]
    IN [store |-> [k \in DOMAIN st \cup {key} |-> IF k = key THEN rec ELSE st[k]],
        allowed |-> allowed,
        remaining |-> remaining,
        hit |-> hit,
        tokensBefore |-> tokens0,
        luBefore |-> last_update,
        luMsBefore |-> IF hit THEN st[key].luMs ELSE nowMs]

TBKey == BuildKey(KeyTypeIP, <<"1">>, <<>>)

TBRates == {1, 5}

\* the wall clock when the first call is made
TBStartTimes == {0, 400}

TBClockSteps == {200, 1000, 1500}

\* NewTokenBucketLimiter, lines 89-93; rate and burst of the calls are kept
\* as RequestsPerSecond and Burst of the ip tier
InitTB ==
    /\ clock \in TBStartTimes
    /\ ticks = 0
    /\ nreq = 0
    /\ redisUp = TRUE
    /\ store = [k \in {} |-> 0]
    /\ counters = [k \in {} |-> 0]
    /\ hasRedis = TRUE
    /\ features = Manager("true", FALSE)
    /\ \E r \in TBRates, b \in 1..MaxBurst :
         config = [MkConfig(TRUE, EmptyApi, TRUE)
                     EXCEPT !.IP = [Tier(r, 0, 0) EXCEPT !.Burst = b]]
    /\ useLocal = FALSE
    /\ checkers = EmptyBag
    /\ proc = [p \in Procs |-> IdleProc]
    /\ hist = [p \in Procs |-> IdleHist]
    /\ last = NoResponse
    /\ watch = IdleWatch
    /\ admitted = <<>>

\* TokenBucketLimiter.Allow, line 97: the caller reads its clock
TBCall(p) ==
    /\ proc[p].pc = "idle"
    /\ nreq < MaxTBCalls
    /\ nreq' = nreq + 1
    /\ proc' = [proc EXCEPT ![p] = [IdleProc EXCEPT !.pc = "bucket",
                                                     !.key = TBKey,
                                                     !.now = clock]]
    /\ UNCHANGED <<clock, ticks, redisUp, store, counters, useLocal, checkers,
                   features, config, hasRedis, hist, last, watch, admitted>>

\* TokenBucketLimiter.Allow, lines 130-140: the script runs and the call
\* returns
TBRun(p) ==
    /\ proc[p].pc = "bucket"
    /\ LET r == TokenBucketScript(store, proc[p].key, config.IP.RequestsPerSecond,
                                  config.IP.Burst, FloatSeconds(proc[p].now),
                                  proc[p].now, clock)
       IN /\ store' = r.store
          /\ last' = [NoResponse EXCEPT !.res = [allowed |-> r.allowed,
                                                 remaining |-> r.remaining,
                                                 reset |-> 0],
                                        !.key = proc[p].key]
          /\ admitted' = Append(admitted,
                                [ts |-> proc[p].now, at |-> clock,
                                 allowed |-> r.allowed,
                                 remaining |-> r.remaining, hit |-> r.hit,
                                 tokensBefore |-> r.tokensBefore,
                                 luBefore |-> r.luBefore,
                                 luMsBefore |-> r.luMsBefore,
                                 luAfter |-> r.store[proc[p].key].lastUpdate])
    /\ proc' = [proc EXCEPT ![p] = IdleProc]
    /\ UNCHANGED <<clock, ticks, nreq, redisUp, counters, useLocal, checkers,
                   features, config, hasRedis, hist, watch>>

NextTB ==
    \/ \E p \in Procs : TBCall(p)
    \/ \E p \in Procs : TBRun(p)
    \/ \E d \in TBClockSteps : Tick(d)

SpecTB == InitTB /\ [][NextTB]_vars

(***************************************************************************)
(* SpecLocal: LocalLimiter.Allow calls on one key                          *)
(***************************************************************************)
LLKey == BuildKey(KeyTypeIP, <<"1">>, <<>>)

LLClockSteps == {1000, LLWindow + 1}

\* NewLocalLimiter, lines 58-62; the limit and window of the calls are those
\* of the ip tier
InitLL ==
    /\ clock = 0
    /\ ticks = 0
    /\ nreq = 0
    /\ redisUp = TRUE
    /\ store = [k \in {} |-> 0]
    /\ counters = [k \in {} |-> 0]
    /\ hasRedis = FALSE
    /\ features = Manager("true", FALSE)
    /\ \E L \in 1..MaxLocalLimit :
         config = [MkConfig(TRUE, EmptyApi, TRUE) EXCEPT !.IP = Tier(0, L, LLWindow)]
    /\ useLocal = TRUE
    /\ checkers = EmptyBag
    /\ proc = [p \in Procs |-> IdleProc]
    /\ hist = [p \in Procs |-> IdleHist]
    /\ last = NoResponse
    /\ watch = IdleWatch
    /\ admitted = <<>>

\* LocalLimiter.Allow, lines 65-87: the whole call runs under l.mu
LLAllow ==
    /\ nreq < MaxLocalCalls
    /\ nreq' = nreq + 1
    /\ LET r == LocalAllow(counters, LLKey, GetEffectiveLimit(config.IP),
                           GetEffectiveWindow(config.IP), clock)
       IN /\ counters' = r.counters
          /\ last' = [NoResponse EXCEPT !.res = Result(r), !.key = LLKey]
          /\ admitted' = Append(admitted, [ts |-> clock, allowed |-> r.allowed,
                                           remaining |-> r.remaining])
    /\ UNCHANGED <<clock, ticks, redisUp, store, useLocal, checkers,
                   features, config, hasRedis, proc, hist, watch>>

NextLL ==
    \/ LLAllow
    \/ \E d \in LLClockSteps : Tick(d)

SpecLocal == InitLL /\ [][NextLL]_vars

(***************************************************************************)
(* SpecKeys: calls of the three limiters on several keys                   *)
(***************************************************************************)
\* keys of the local counter and the sliding window (checkLimit gives both
\* the same key), and keys of the token bucket
KeysWindow == {BuildKey(KeyTypeIP, <<"1">>, <<>>), BuildKey(KeyTypeIP, <<"2">>, <<>>)}
KeysBucket == {BuildKey(KeyTypeUser, <<"u">>, <<>>), BuildKey(KeyTypeUser, <<"v">>, <<>>)}

\* NewLocalLimiter, NewSlidingWindowLimiter, NewTokenBucketLimiter: limit,
\* window, rate and burst of the calls are those of the ip tier
InitKeys ==
    /\ clock = 0
    /\ ticks = 0
    /\ nreq = 0
    /\ redisUp = TRUE
    /\ store = [k \in {} |-> 0]
    /\ counters = [k \in {} |-> 0]
    /\ hasRedis = TRUE
    /\ features = Manager("true", FALSE)
    /\ config = [MkConfig(TRUE, EmptyApi, TRUE)
                   EXCEPT !.IP = [Tier(1, 0, 0) EXCEPT !.Burst = 1]]
    /\ useLocal = FALSE
    /\ checkers = EmptyBag
    /\ proc = [p \in Procs |-> IdleProc]
    /\ hist = [p \in Procs |-> IdleHist]
    /\ last = NoResponse
    /\ watch = IdleWatch
    /\ admitted = <<>>

\* what a call leaves in last: its key, its limiter and its result
KeyCallResult(k, by, res) ==
    [NoResponse EXCEPT !.key = k, !.hist.by = by, !.res = res]

\* LocalLimiter.Allow, lines 65-87
KeyLocalAllow(k) ==
    /\ nreq < MaxKeyCalls
    /\ nreq' = nreq + 1
    /\ LET r == LocalAllow(counters, k, GetEffectiveLimit(config.IP),
                           GetEffectiveWindow(config.IP), clock)
       IN /\ counters' = r.counters
          /\ last' = KeyCallResult(k, "local", Result(r))
    /\ UNCHANGED <<clock, ticks, redisUp, store, useLocal, checkers, features,
                   config, hasRedis, proc, hist, watch, admitted>>

\* SlidingWindowLimiter.Allow, lines 25-80, the script running at the time
\* the caller read
KeyWindowAllow(k, rnd) ==
    /\ nreq < MaxKeyCalls
    /\ nreq' = nreq + 1
    /\ LET r == SlidingWindowAllow(store, k, GetEffectiveLimit(config.IP),
                                   GetEffectiveWindow(config.IP), clock, rnd, clock)
       IN /\ store' = r.store
          /\ last' = KeyCallResult(k, "shared", Result(r))
    /\ UNCHANGED <<clock, ticks, redisUp, counters, useLocal, checkers, features,
                   config, hasRedis, proc, hist, watch, admitted>>

\* TokenBucketLimiter.Allow, lines 96-141, the script running at the time
\* the caller read
KeyBucketAllow(k) ==
    /\ nreq < MaxKeyCalls
    /\ nreq' = nreq + 1
    /\ LET r == TokenBucketScript(store, k, config.IP.RequestsPerSecond,
                                  config.IP.Burst, FloatSeconds(clock), clock, clock)
       IN /\ store' = r.store
          /\ last' = KeyCallResult(k, "bucket",
                                   [allowed |-> r.allowed, remaining |-> r.remaining,
                                    reset |-> 0])
    /\ UNCHANGED <<clock, ticks, redisUp, counters, useLocal, checkers, features,
                   config, hasRedis, proc, hist, watch, admitted>>

NextKeys ==
    \/ \E k \in KeysWindow : KeyLocalAllow(k)
    \/ \E k \in KeysWindow, rnd \in 1..NumRand : KeyWindowAllow(k, rnd)
    \/ \E k \in KeysBucket : KeyBucketAllow(k)
    \/ \E d \in SWClockSteps : Tick(d)

SpecKeys == InitKeys /\ [][NextKeys]_vars

(***************************************************************************)
(* Claims                                                                  *)
(***************************************************************************)

\* the admitted calls whose timestamps lie in the span [t, t + w)
AdmittedIn(t, w) ==
    {i \in 1..Len(admitted) : admitted[i].ts >= t /\ admitted[i].ts < t + w}

\* no two admitted calls were given the same member by the script
DistinctMembers ==
    \A i, j \in 1..Len(admitted) : admitted[i] = admitted[j] => i = j

\* C1: under any interleaving of concurrent SlidingWindowLimiter.Allow calls
\* on one key, at most L of the calls whose timestamps fall within one span
\* of length W are admitted.  Stated for the behaviours in which all admitted
\* calls got distinct members (every span that holds admitted calls contains
\* one that starts at an admitted timestamp).
C1_AtMostLimitPerWindow ==
    DistinctMembers =>
        \A i \in 1..Len(admitted) :
            Cardinality(AdmittedIn(admitted[i].ts, SWWindow)) <= SWLimit


InFlight == {p \in Procs : proc[p].pc # "idle"}

ThreeHeaders == {HeaderRateLimitLimit, HeaderRateLimitRemaining, HeaderRateLimitReset}

\* a forward or a 429, with the three X-RateLimit headers
WellFormed(resp) ==
    /\ resp.status \in {"next", "429"}
    /\ ThreeHeaders \subseteq DOMAIN resp.headers

\* C2: with fallback_to_local enabled, a request whose store call fails is
\* decided by the local counter and use_local becomes true (and stays true
\* until a probe succeeds); a request that starts while that holds is decided
\* by the local counter without a store call; both end as forward or 429 with
\* the three X-RateLimit headers.
C2_FallbackInvariance ==
    /\ watch.degradedClean => useLocal
    /\ \A p \in InFlight :
         /\ hist[p].storeErr => proc[p].pc \in {"errored", "fallback"}
         /\ hist[p].afterFallback => proc[p].pc = "local" /\ ~hist[p].storeCalled
    /\ (last.hist.storeErr /\ config.FallbackToLocal) =>
         last.hist.by = "local" /\ WellFormed(last)
    /\ last.hist.afterFallback =>
         last.hist.by = "local" /\ ~last.hist.storeCalled /\ WellFormed(last)

\* C2 witness: the request after the store error was denied by the local counter
C2_Witness ==
    /\ last.hist.afterFallback
    /\ last.hist.by = "local"
    /\ last.status = "429"

\* C3: with fallback_to_local disabled, a store error admits the request with
\* remaining = limit and reset = now + window, and changes neither use_local,
\* nor the set of recovery checkers, nor the local counters.
C3_FailOpen ==
    [][\A p \in Procs :
          (/\ proc[p].pc = "script"
           /\ ~redisUp
           /\ ~config.FallbackToLocal
           /\ proc'[p].pc # "script")
          => LET t == proc[p].tier
                 limit == IF t.RequestsPerSecond > 0
                          THEN t.RequestsPerSecond ELSE t.RequestsPerMinute
                 window == IF t.Window > 0 THEN t.Window
                           ELSE IF t.RequestsPerSecond > 0 THEN 1000 ELSE 60000
             IN /\ last'.req = proc[p].req
                /\ last'.status = "next"
                /\ last'.res = [allowed |-> TRUE, remaining |-> limit,
                                reset |-> (clock + window) \div 1000]
                /\ last'.headers[HeaderRateLimitRemaining] = limit
                /\ useLocal' = useLocal
                /\ checkers' = checkers
                /\ counters' = counters]_vars

\* C3 witness: a request was admitted by fail-open
C3_Witness ==
    /\ last.hist.by = "failopen"
    /\ last.hist.storeErr
    /\ ~config.FallbackToLocal

\* C4: at most one recovery checker is outstanding, and a store error spawns
\* a checker only when it moved use_local from false to true.
C4_AtMostOneChecker ==
    /\ BagCardinality(checkers) <= 1
    /\ \A p \in InFlight : proc[p].pc = "fallback" => hist[p].flipped

\* C5 as claimed: after a probe succeeded and set use_local to false (the
\* store staying up since), the first decision made is made by the shared
\* counter, whatever requests are in flight.
C5_NextDecisionShared == watch.firstAfter \in {"none", "shared"}

\* C5 as amended: every request that reads use_local after a probe succeeded
\* and set it to false, the store having stayed up and no store-error handler
\* having set use_local since, goes to the shared counter, and is decided by
\* it unless its own store call fails.
C5_ReadersAfterRecoveryUseShared ==
    /\ \A p \in InFlight :
         hist[p].afterRecovery =>
            hist[p].mode = "shared" /\ proc[p].pc \in {"script", "errored", "fallback"}
    /\ last.hist.afterRecovery =>
         /\ last.hist.storeCalled
         /\ ~last.hist.storeErr => last.hist.by = "shared"

\* C5 witness: a request that started after the recovery was decided by the
\* shared counter
C5_Witness ==
    /\ last.hist.afterRecovery
    /\ last.hist.by = "shared"
    /\ WellFormed(last)

\* C6: every limited request gets the three X-RateLimit headers, whichever
\* counter decided; it is denied exactly when the counter denied it, and a
\* denial carries Retry-After >= 1.
C6_HeaderInvariant ==
    last.hist.gate = "open" =>
        /\ last.hist.by \in {"shared", "local", "failopen"}
        /\ WellFormed(last)
        /\ last.status = "429" <=> ~last.res.allowed
        /\ last.status = "429" =>
             /\ HeaderRetryAfter \in DOMAIN last.headers
             /\ last.headers[HeaderRetryAfter] >= 1

\* C6 witness: a denial whose reset time was not in the future any more
C6_Witness ==
    /\ last.hist.gate = "open"
    /\ last.status = "429"
    /\ last.headers[HeaderRetryAfter] = 1
    /\ last.res.reset * 1000 <= clock

\* the rate_limiting flag as the deployment has it
FlagOn ==
    /\ features.init
    /\ \/ features.cache = "true"
       \/ features.cache = "absent" /\ features.viper

\* C7: with the flag off (or the manager missing) or config.Enabled false,
\* every request is forwarded without headers, none is denied, and the store,
\* the local counters, use_local and the checkers stay as New left them.
C7_DisableFlips ==
    (~FlagOn \/ ~config.Enabled) =>
        /\ last.status \in {"none", "next"}
        /\ last.headers = NoHeaders
        /\ InFlight = {}
        /\ DOMAIN store = {}
        /\ DOMAIN counters = {}
        /\ useLocal = ~hasRedis
        /\ checkers = EmptyBag

\* C7 witness: all the traffic was forwarded with the manager missing
C7_Witness ==
    /\ ~features.init
    /\ config.Enabled
    /\ nreq = MaxRequests
    /\ last.status = "next"
    /\ last.hist.gate = "closed"

Str_ratelimit_user == <<"r", "a", "t", "e", "l", "i", "m", "i", "t", ":",
                        "u", "s", "e", "r", ":">>
Str_ratelimit_ip == <<"r", "a", "t", "e", "l", "i", "m", "i", "t", ":", "i", "p", ":">>
Str_ratelimit_api == <<"r", "a", "t", "e", "l", "i", "m", "i", "t", ":", "a", "p", "i", ":">>

EffectiveLimitOf(t) ==
    IF t.RequestsPerSecond > 0 THEN t.RequestsPerSecond ELSE t.RequestsPerMinute

\* C8: one tier per request: the api tier of a matching pattern if there is
\* one (also with a user_id); else the user tier with key
\* ratelimit:user:<user_id> when user_id is a non-empty string; else the ip
\* tier with key ratelimit:ip:<client_ip>; X-RateLimit-Limit is that tier's
\* effective limit.
C8_TierOrder ==
    last.hist.gate = "open" =>
        LET r == last.req
            path == IF r.fullPath = <<>> THEN r.urlPath ELSE r.fullPath
            matching == {pat \in DOMAIN config.API : matchPath(pat, path)}
        IN  IF matching # {}
            THEN /\ last.hist.tierName = "api"
                 /\ \E pat \in matching :
                      /\ last.tier = config.API[pat]
                      /\ last.headers[HeaderRateLimitLimit]
                           = EffectiveLimitOf(config.API[pat])
            ELSE IF r.user.kind = "string" /\ r.user.val # <<>>
            THEN /\ last.hist.tierName = "user"
                 /\ last.tier = config.User
                 /\ last.key = Str_ratelimit_user \o r.user.val
                 /\ last.headers[HeaderRateLimitLimit] = EffectiveLimitOf(config.User)
            ELSE /\ last.hist.tierName = "ip"
                 /\ last.tier = config.IP
                 /\ last.key = Str_ratelimit_ip \o r.ip
                 /\ last.headers[HeaderRateLimitLimit] = EffectiveLimitOf(config.IP)

\* C8 witness: a request with a user_id that matched a pattern got the api tier
C8_Witness ==
    /\ last.hist.gate = "open"
    /\ last.hist.tierName = "api"
    /\ last.req.user.kind = "string"
    /\ last.req.user.val # <<>>
    /\ last.headers[HeaderRateLimitLimit] = EffectiveLimitOf(last.tier)

\* C9: a request that matches a registered pattern is counted under
\* ratelimit:api:<pattern>, so two requests that match the same pattern share
\* one counter key.
C9_KeyPerPattern ==
    /\ \A p \in InFlight :
         hist[p].tierName = "api" => proc[p].key = Str_ratelimit_api \o hist[p].pattern
    /\ \A p, q \in InFlight :
         (hist[p].tierName = "api" /\ hist[q].tierName = "api"
            /\ hist[p].pattern = hist[q].pattern) => proc[p].key = proc[q].key

\* C10: with /a/* and /a/:x/b registered, the request /a/c/b is always
\* limited by the tier of /a/:x/b.
C10_ParamPatternWins ==
    \A p \in InFlight :
        (/\ {PatAStar, PatAParamB} \subseteq DOMAIN config.API
         /\ RequestPath(proc[p].req) = PathACB)
        => hist[p].pattern = PatAParamB /\ proc[p].tier = config.API[PatAParamB]

\* index of the call that opened the window call i falls in: a call opens a
\* window when it is the first one, or comes after the end of the window of
\* the call before it
RECURSIVE WindowStart(_)
WindowStart(i) ==
    IF i = 1 THEN 1
    ELSE LET j == WindowStart(i - 1)
         IN IF admitted[i].ts > admitted[j].ts + LLWindow THEN i ELSE j

\* C11: with limit L >= 1, the k-th call of a window is admitted with
\* remaining L - k when k <= L and denied with remaining 0 when k > L; a
\* record never counts more than L.
C11_LocalFirstLAdmitted ==
    LET L == config.IP.RequestsPerMinute IN
    /\ \A i \in 1..Len(admitted) :
          LET k == i - WindowStart(i) + 1
          IN IF k <= L
             THEN admitted[i].allowed /\ admitted[i].remaining = L - k
             ELSE ~admitted[i].allowed /\ admitted[i].remaining = 0
    /\ \A key \in DOMAIN counters : counters[key].count <= L

\* C11 witness: a window was used up, a call was denied, and after the window
\* ran out a call was admitted again
C11_Witness ==
    \E i, j \in 1..Len(admitted) :
        /\ i < j
        /\ ~admitted[i].allowed
        /\ admitted[j].allowed
        /\ admitted[j].remaining = config.IP.RequestsPerMinute - 1

\* C12: a request whose tier has effective limit zero never enters
\* checkLimit, and is answered by forwarding it with no counter consulted.
C12_ZeroLimitForwards ==
    /\ \A p \in InFlight : EffectiveLimitOf(proc[p].tier) # 0
    /\ (last.status # "none" /\ EffectiveLimitOf(last.tier) = 0) =>
          /\ last.status = "next"
          /\ last.hist.by = "none"
          /\ last.headers = NoHeaders

\* C13: X-RateLimit-Remaining lies between 0 and the effective limit of the
\* tier, and is 0 on a denial.
C13_RemainingInRange ==
    last.hist.gate = "open" =>
        /\ last.headers[HeaderRateLimitRemaining] >= 0
        /\ last.headers[HeaderRateLimitRemaining] <= EffectiveLimitOf(last.tier)
        /\ last.status = "429" => last.headers[HeaderRateLimitRemaining] = 0

\* C14: a request whose context is cancelled during the store call gets no
\* rate-limit header and no body, is neither admitted nor denied, and does
\* not take the store-error path that sets use_local.
C14_CancelledLeavesNoTrace ==
    /\ \A p \in InFlight :
          hist[p].cancelled => proc[p].pc \notin {"errored", "fallback"}
    /\ last.hist.cancelled =>
          /\ last.headers = NoHeaders
          /\ last.body = 0
          /\ last.status \notin {"next", "429"}

\* C15: whatever the shape of the store's reply, the request ends as a
\* forward or a 429, never in another failure.
C15_BadReplyIsStoreError ==
    last.status \in {"none", "next", "429"}

Str_ratelimit_global == <<"r", "a", "t", "e", "l", "i", "m", "i", "t", ":",
                          "g", "l", "o", "b", "a", "l">>
Str_ratelimit_unknown == <<"r", "a", "t", "e", "l", "i", "m", "i", "t", ":",
                           "u", "n", "k", "n", "o", "w", "n", ":">>
Str_api_infix == <<":", "a", "p", "i", ":">>

\* C16: the key of a BuildKey call differs from the key of every call with
\* another key type among global, user, ip and api, whatever the identifiers
\* and paths.
C16_TiersNeverCollide ==
    (last.op = "BuildKey" /\ last.keyType # "burst") =>
        \A kt \in KeyTypes \ {"burst", last.keyType} :
            \A id \in KeyArgs, path \in KeyArgs :
                BuildKey(kt, id, path) # last.out

\* C16 witness: a user key whose identifier reads like an api key was built
C16_Witness ==
    /\ last.op = "BuildKey"
    /\ last.keyType = KeyTypeUser
    /\ last.identifier = <<"a", "p", "i", ":">>
    /\ last.path = <<"/", "a">>

\* C17: BuildKey writes ratelimit:global, ratelimit:user:<id>,
\* ratelimit:user:<id>:api:<path>, ratelimit:ip:<id>, ratelimit:api:<path>,
\* and ratelimit:unknown:<id> for another key type.
C17_BuildKeyFormats ==
    last.op = "BuildKey" =>
        last.out =
            CASE last.keyType = "global" -> Str_ratelimit_global
              [] last.keyType = "user" /\ last.path = <<>> ->
                    Str_ratelimit_user \o last.identifier
              [] last.keyType = "user" /\ last.path # <<>> ->
                    Str_ratelimit_user \o last.identifier \o Str_api_infix \o last.path
              [] last.keyType = "ip" -> Str_ratelimit_ip \o last.identifier
              [] last.keyType = "api" -> Str_ratelimit_api \o last.path
              [] OTHER -> Str_ratelimit_unknown \o last.identifier

\* C17 witness: a user key with a path was built
C17_Witness ==
    /\ last.op = "BuildKey"
    /\ last.keyType = KeyTypeUser
    /\ last.identifier = <<"a">>
    /\ last.path = <<"/", "a">>
    /\ last.out = Str_ratelimit_user \o <<"a", ":", "a", "p", "i", ":", "/", "a">>

\* C18: for a pattern P/*, matchPath is true for a path that continues
\* below P, false for a path that does not begin with P, and false for P
\* alone.
C18_WildcardBelowOnly ==
    (last.op = "matchPath" /\ HasSuffix(last.pattern, <<"/", "*">>)) =>
        LET P == SubSeq(last.pattern, 1, Len(last.pattern) - 2)
            path == last.path
        IN /\ (Len(path) > Len(P) + 1 /\ SubSeq(path, 1, Len(P) + 1) = P \o <<"/">>)
                 => last.out
           /\ (Len(path) < Len(P) \/ SubSeq(path, 1, Len(P)) # P) => ~last.out
           /\ path = P => ~last.out

\* the segment is a parameter placeholder
IsParam(seg) == Len(seg) >= 1 /\ seg[1] = ":"

\* C19: for a pattern with parameter segments and no trailing /*, matchPath
\* is true iff the path has as many segments as the pattern, equal literal
\* segments, and a non-empty segment at every parameter position.
C19_ParamSegmentsNonEmpty ==
    (/\ last.op = "matchPath"
     /\ ContainsChar(last.pattern, ":")
     /\ ~HasSuffix(last.pattern, <<"/", "*">>)) =>
        LET pp == Split(last.pattern, "/")
            qq == Split(last.path, "/")
        IN last.out <=>
             /\ Len(pp) = Len(qq)
             /\ \A i \in 1..Len(pp) :
                   IF IsParam(pp[i]) THEN qq[i] # <<>> ELSE pp[i] = qq[i]

\* C20: the effective limit is RequestsPerSecond when positive, else
\* RequestsPerMinute; the effective window is Window when positive, else one
\* second when RequestsPerSecond is positive, else one minute.
C20_EffectiveValues ==
    last.op = "effective" =>
        LET t == last.tier IN
        /\ last.limit = IF t.RequestsPerSecond > 0 THEN t.RequestsPerSecond
                        ELSE t.RequestsPerMinute
        /\ last.window = IF t.Window > 0 THEN t.Window
                         ELSE IF t.RequestsPerSecond > 0 THEN 1000
                         ELSE 60000

\* C20 witness: a tier with both rates set and no window is limited by the
\* per-second figure over one second
C20_Witness ==
    /\ last.op = "effective"
    /\ last.tier.RequestsPerSecond = 1
    /\ last.tier.RequestsPerMinute = 2
    /\ last.tier.Window = 0
    /\ last.limit = 1
    /\ last.window = 1000

TBRate == config.IP.RequestsPerSecond
TBBurst == config.IP.Burst

\* C21: a call that finds the bucket empty, dt after the update that
\* emptied it, with rate * dt >= 1, is admitted with
\* remaining = floor(min(burst, rate * dt) - 1).
C21_RefillFromEmpty ==
    \A i \in 1..Len(admitted) :
        LET c == admitted[i]
            dtMs == c.ts - c.luMsBefore
        IN (c.hit /\ c.tokensBefore = 0 /\ TBRate * dtMs >= 1000) =>
              /\ c.allowed
              /\ c.remaining = (Min(TBBurst * 1000, TBRate * dtMs) \div 1000) - 1

\* C22: on a key that is not in the store, the first burst calls of one
\* instant (the later ones finding the record of the earlier) are admitted
\* and the next call of that instant is denied; the call that follows a
\* denial by at least 1/rate seconds is admitted (the denied call being one
\* that ran in the order of its timestamp, on a bucket that was not negative).
C22_BurstThenRefill ==
    /\ \A i \in 1..Len(admitted) :
         ~admitted[i].hit =>
            \A n \in 0..(Len(admitted) - i) :
               (\A m \in 1..n : /\ admitted[i + m].ts = admitted[i].ts
                                 /\ admitted[i + m].hit) =>
                  (admitted[i + n].allowed <=> n + 1 <= TBBurst)
    /\ \A i \in 1..(Len(admitted) - 1) :
         (/\ ~admitted[i].allowed
          /\ admitted[i].ts >= admitted[i].luMsBefore
          /\ admitted[i].tokensBefore >= 0
          /\ TBRate * (admitted[i + 1].ts - admitted[i].ts) >= 1000)
         => admitted[i + 1].allowed

\* C29: the stored tokens value lies between 0 and burst.
C29_TokensWithinBurst ==
    \A key \in DOMAIN store :
        /\ store[key].tokens >= 0
        /\ store[key].tokens <= TBBurst * Grain

\* C30: no call stores a last_update smaller than the one it found.
C30_LastUpdateMonotone ==
    \A i \in 1..Len(admitted) :
        admitted[i].hit => admitted[i].luAfter >= admitted[i].luBefore

\* the log holds the decisions a, each for a request made at the second of
\* its position (0, 1, 2, ...) and answered in that second
ExDecided(a) ==
    /\ Len(admitted) >= Len(a)
    /\ \A i \in 1..Len(a) :
          /\ admitted[i].ts = (i - 1) * Second
          /\ admitted[i].at = admitted[i].ts
          /\ admitted[i].allowed = a[i][1]
          /\ admitted[i].remaining = a[i][2]

\* C23: with limit 3 and window 60 s on an empty key, requests at 0, 1, 2 and
\* 3 s, each answered in its second, are decided (allow, 2), (allow, 1),
\* (allow, 0), (deny, 0) and the denial carries retry_after = 60; every
\* admission that finds count entries in the window reports
\* remaining = limit - count - 1.
C23_WorkedExample ==
    /\ (/\ config.IP = Tier(0, 3, 60 * Second)
        /\ Len(admitted) >= 4
        /\ \A i \in 1..4 : /\ admitted[i].ts = (i - 1) * Second
                           /\ admitted[i].at = admitted[i].ts)
       => /\ ExDecided(<< <<TRUE, 2>>, <<TRUE, 1>>, <<TRUE, 0>>, <<FALSE, 0>> >>)
          /\ admitted[4].retry_after = 60
    /\ \A i \in 1..Len(admitted) :
          admitted[i].allowed =>
             admitted[i].remaining = GetEffectiveLimit(config.IP) - admitted[i].found - 1

\* C23 witness: the four requests of the example were made and answered, the
\* fourth with 429 and retry_after 60
C23_Witness ==
    /\ config.IP = Tier(0, 3, 60 * Second)
    /\ ExDecided(<< <<TRUE, 2>>, <<TRUE, 1>>, <<TRUE, 0>>, <<FALSE, 0>> >>)
    /\ admitted[4].retry_after = 60
    /\ last.status = "429"

\* the response last' follows the response last on the same key and the same
\* counter, in one window: on the shared counter the script found every
\* entry the previous script left, on the local counter the record was live
SameKeyAndWindow ==
    /\ last' # last
    /\ last.hist.by \in {"shared", "local"}
    /\ last'.hist.by = last.hist.by
    /\ last'.key = last.key
    /\ IF last.hist.by = "shared"
       THEN LiveEntries(store, last.key, clock) \subseteq
               LiveEntries(store', last.key, clock)
       ELSE /\ last.key \in DOMAIN counters
            /\ clock <= counters[last.key].resetTime

\* C24: of two consecutive decisions on one key in one window, the first an
\* admission, the second is an admission with remaining no larger than the
\* first, or a denial and then the first reported remaining = 0.
C24_MonotoneRemaining ==
    [][(SameKeyAndWindow /\ last.status = "next") =>
          IF last'.status = "next"
          THEN last'.res.remaining <= last.res.remaining
          ELSE last.res.remaining = 0]_vars

\* C25: a request that reached checkLimit is passed to the next handler iff
\* checkLimit returned allowed; otherwise it is answered with 429 and a body
\* whose retry_after is the value of the Retry-After header.
C25_ForwardIffAllowed ==
    last.hist.gate = "open" =>
       /\ last.status \in {"next", "429"}
       /\ last.status = "next" <=> last.res.allowed
       /\ last.status = "429" =>
             /\ HeaderRetryAfter \in DOMAIN last.headers
             /\ last.body = last.headers[HeaderRetryAfter]
       /\ last.status = "next" => HeaderRetryAfter \notin DOMAIN last.headers

\* C25 witness: a request was denied by a counter and answered with 429
C25_Witness ==
    /\ last.hist.gate = "open"
    /\ ~last.res.allowed
    /\ last.status = "429"
    /\ last.body = last.headers[HeaderRetryAfter]

\* a step of a recovery checker whose sleep is over: no request moves and
\* the set of checkers changes
CheckerStep == proc' = proc /\ checkers' # checkers

\* C27: a checker whose ping fails leaves use_local as it is and is replaced
\* by exactly one checker that starts its sleep; a checker whose ping
\* succeeds ends with no checker started.
C27_ProbeOutcome ==
    [][CheckerStep =>
          \E w \in BagToSet(checkers) :
             /\ w <= clock
             /\ IF redisUp
                THEN checkers' = checkers (-) SetToBag({w})
                ELSE /\ useLocal' = useLocal
                     /\ checkers' = (checkers (-) SetToBag({w}))
                                      (+) SetToBag({clock + ProbeInterval})
                     /\ BagCardinality(checkers') = BagCardinality(checkers)]_vars

\* C27 witness: the one request made was answered by the local counter
\* after a store error, and the store being down, the one checker there is
\* started its sleep later than that answer: it is the successor of the
\* checker the request started
C27_Witness ==
    /\ nreq = 1
    /\ InFlight = {}
    /\ last.hist.storeErr
    /\ ~redisUp
    /\ useLocal
    /\ BagCardinality(checkers) = 1
    /\ \E w \in BagToSet(checkers) :
          w - ProbeInterval >=
             last.res.reset * 1000 - GetEffectiveWindow(last.tier) + 1000

\* C26: if from some point on the store is up, so that it answers every
\* probe and no store call fails for its being down, then whenever use_local
\* is true with a store client configured, use_local is false at some later
\* point.
C26_EventuallyHealthy ==
    (<>[]redisUp) => []((useLocal /\ hasRedis) => <>(~useLocal))

\* C26 witness: after a store error had set use_local, a probe succeeded and
\* use_local is false again, with no checker left
C26_Witness ==
    /\ hasRedis
    /\ watch.recoveredClean
    /\ ~useLocal
    /\ redisUp
    /\ checkers = EmptyBag

\* C28: all the configuration reads of one request give one Config value.
C28_OneConfigPerRequest ==
    /\ \A p \in Procs : Cardinality(hist[p].cfgs) <= 1
    /\ Cardinality(last.hist.cfgs) <= 1

\* C31: a denial carries retry_after = ceil((s + window_ms - now_ms) / 1000),
\* not below 0, s being the score of the oldest entry left in the window.
C31_RetryAfterFromOldest ==
    \A i \in 1..Len(admitted) :
        LET c == admitted[i]
            delay == CeilDiv(OldestScore(c.after) + c.window - c.ts, 1000)
        IN (~c.allowed /\ c.after # {}) =>
              c.retry_after = IF delay < 0 THEN 0 ELSE delay

\* C32: an access counts the entries with score >= now_ms - window_ms: it
\* removes those with a smaller score and no other.
C32_PurgeStrictlyOlder ==
    \A i \in 1..Len(admitted) :
        LET c == admitted[i]
        IN c.found = Cardinality({e \in c.before : e.score >= c.ts - c.window})

\* C33: an admission leaves the sorted set with one entry more than it
\* counted.
C33_AdmissionAddsOne ==
    \A i \in 1..Len(admitted) :
        admitted[i].allowed =>
            Cardinality(admitted[i].after) = admitted[i].found + 1

\* C38: a denied request leaves in the sorted set the entries it found less
\* the aged-out ones, adds none, and leaves the expiry of the key as it was.
C38_DenialLeavesKey ==
    \A i \in 1..Len(admitted) :
        LET c == admitted[i]
        IN ~c.allowed =>
              /\ c.after \subseteq c.before
              /\ \A e \in c.before \ c.after : e.score <= c.ts - c.window
              /\ c.after # {} => c.expAfter = c.expBefore

\* C38 witness: a request was denied later than the admission that last set
\* the expiry of its key
C38_Witness ==
    \E i \in 1..Len(admitted) :
        /\ ~admitted[i].allowed
        /\ admitted[i].after # {}
        /\ admitted[i].expBefore < admitted[i].at + admitted[i].window

\* C34: with a store client, use_local is true only while a recovery
\* checker is outstanding.
C34_DegradedHasChecker ==
    (hasRedis /\ useLocal) => BagCardinality(checkers) >= 1

\* C34 witness: use_local is true after a store error, the request that set
\* it is answered, and its checker is in its sleep
C34_Witness ==
    /\ hasRedis
    /\ useLocal
    /\ InFlight = {}
    /\ last.hist.flipped
    /\ \E w \in BagToSet(checkers) : w > clock

\* C35: a request that starts while use_local is true takes the local
\* counter with no store call, and the step that decides a request on the
\* local path leaves the store, use_local and the checkers as they are.
C35_LocalPathFrame ==
    [][\A p \in Procs :
          /\ (proc[p].pc = "idle" /\ proc'[p].pc # "idle" /\ useLocal) =>
                /\ proc'[p].pc = "local"
                /\ ~hist'[p].storeCalled
          /\ (proc[p].pc = "local" /\ proc'[p].pc # "local") =>
                /\ proc'[p].pc = "idle"
                /\ store' = store
                /\ useLocal' = useLocal
                /\ checkers' = checkers
                /\ last'.hist.by = "local"
                /\ ~last'.hist.storeCalled
                /\ ~last'.hist.storeErr]_vars

\* C35 witness: with a store client, a request that read use_local = true
\* was decided by the local counter
C35_Witness ==
    /\ hasRedis
    /\ last.hist.mode = "local"
    /\ last.hist.by = "local"
    /\ ~last.hist.storeCalled
    /\ last.status \in {"next", "429"}

\* C36: without a store client use_local is true in every state, no checker
\* exists, every request is on the local path and every decision is the
\* local counter's.
C36_NoClientStaysLocal ==
    ~hasRedis =>
       /\ useLocal
       /\ IsUsingLocalFallback(useLocal)
       /\ checkers = EmptyBag
       /\ \A p \in InFlight : proc[p].pc = "local"
       /\ last.hist.gate = "open" => last.hist.by = "local"

\* C36 witness: without a store client, all the requests of the behaviour
\* were made and the last was decided by the local counter
C36_Witness ==
    /\ ~hasRedis
    /\ nreq = MaxRequests
    /\ InFlight = {}
    /\ last.hist.by = "local"
    /\ IsUsingLocalFallback(useLocal)

\* C39: a call on a key whose record is live (now <= reset time) leaves the
\* reset time of the record as it is, admitted or denied; a call after the
\* reset time is admitted and leaves a record with count 1 and reset time
\* now + window.
C39_LocalWindowReset ==
    [][Len(admitted') > Len(admitted) =>
          IF LLKey \in DOMAIN counters /\ clock <= counters[LLKey].resetTime
          THEN /\ counters'[LLKey].resetTime = counters[LLKey].resetTime
               /\ counters'[LLKey].count =
                     counters[LLKey].count
                       + (IF admitted'[Len(admitted')].allowed THEN 1 ELSE 0)
          ELSE /\ admitted'[Len(admitted')].allowed
               /\ counters'[LLKey] =
                     [count |-> 1,
                      resetTime |-> clock + GetEffectiveWindow(config.IP)]]_vars

\* C39 witness: a call made at the reset time itself was denied by the full
\* record of the window, whose reset time is still the one the first call set
C39_Witness ==
    \E i \in 2..Len(admitted) :
        /\ ~admitted[i].allowed
        /\ admitted[i].ts = admitted[1].ts + LLWindow
        /\ counters[LLKey].resetTime = admitted[1].ts + LLWindow

\* the number of calls admitted among the i-th to the j-th of the log
AdmittedAmong(i, j) == Cardinality({k \in i..j : admitted[k].allowed})

\* C40: the calls admitted among those whose scripts ran within a span of T
\* seconds number at most burst + rate * T.
C40_RateBound ==
    \A i, j \in 1..Len(admitted) :
        i <= j =>
           1000 * (AdmittedAmong(i, j) - TBBurst)
              <= TBRate * (admitted[j].at - admitted[i].at)

\* what a function (the store or the map of the local counter) holds under
\* key k
Under(f, k) == IF k \in DOMAIN f THEN <<f[k]>> ELSE <<>>

\* C37: a step changes the store and the local map at most under the key of
\* the call it makes, the store only if the call is to a store limiter and
\* the local map only if it is to the local counter.
C37_OtherKeysUnchanged ==
    [][/\ \A k \in KeysWindow \cup KeysBucket :
             k # last'.key =>
                /\ Under(store', k) = Under(store, k)
                /\ Under(counters', k) = Under(counters, k)
       /\ last'.hist.by = "local" => store' = store
       /\ last'.hist.by \in {"shared", "bucket"} => counters' = counters]_vars

\* C37 witness: two keys of the store and a key of the local counter
\* hold state, and the last call was denied on its key
C37_Witness ==
    /\ Cardinality(DOMAIN store) >= 2
    /\ Cardinality(DOMAIN counters) >= 1
    /\ ~last.res.allowed
    /\ last.hist.by # "none"

====
